---- MODULE Spec2Model ----
(***************************************************************************)
(* A model of src/f5_tts/model/utils.py: convert_char_to_pinyin (the       *)
(* phonetic transcription alignment engine) and repetition_found.          *)
(*                                                                         *)
(* A Python string is a sequence of characters; a character is written as  *)
(* a one-element string atom.  Characters outside ASCII are written by     *)
(* their code point: "U+00E9" (e acute, 2 bytes in UTF-8), "U+5BA2" (the   *)
(* Chinese character of "go<U+5BA2>", pinyin ke4), "U+FF0C" (fullwidth     *)
(* comma: 3 bytes, outside the range is_chinese accepts).                  *)
(*                                                                         *)
(* An element of char_list / char_list_whole is a record [k, s]: s is the  *)
(* Python string the code appends, k is a history annotation naming the    *)
(* statement that appended it:                                             *)
(*   "lit"  a character of the input, passed through                       *)
(*   "bsp"  the boundary space of the literal branch (line 208/209)        *)
(*   "csp"  the space put before a Chinese character (217/218, 236/237)    *)
(*   "cf"   a lazy_pinyin token of a Chinese character (220, 238)          *)
(*   "ca"   a token of the filtered g2pw stream (223, 240)                 *)
(*   "pt"   a lazy_pinyin token of a non-Chinese character (220, 228)      *)
(* jieba, pypinyin and g2pw are libraries outside the repository: the      *)
(* segmentation and the g2pw output are chosen nondeterministically when   *)
(* the code calls them; lazy_pinyin yields one token per character.        *)
(***************************************************************************)
EXTENDS Integers, Sequences, FiniteSets, TLC

VARIABLES
    text_list,              \* the argument: a sequence of lines
    polyphone,              \* the argument polyphone
    g2pw,                   \* the argument g2pw: the items this romanizer may emit
    run,                    \* 1: the call on the caller's batch; 2: the call on its own output
    pc,                     \* position in convert_char_to_pinyin
    n,                      \* number of lines the for loop of line 182 has started
    text,                   \* the translated line being walked
    pos,                    \* number of characters of text jieba.cut has yielded
    seg,                    \* the segment jieba.cut yielded last
    clean,                  \* history: no segment of this line of several ASCII characters
                            \* came right after a character other than space, colon, quote
    i,                      \* index in seg of the next character (1-based)
    filtered_sentence,
    chinese_char_len,
    j,                      \* the cursor
    bound,                  \* whether the locals j and filtered_sentence are bound
    char_list,
    char_list_whole,
    final_text_list,
    final_text_list_whole,
    outcome,                \* "running", "whole", "context_free" or "NameError"
    result,                 \* the returned list
    line_log,               \* history: per finished line, its stream and final cursor
    rtext,                  \* repetition_found: the argument text
    length,
    tolerance,
    pattern_count,
    ri,                     \* the loop variable i of line 265
    rpc,
    rret

cvars == <<text_list, polyphone, g2pw, run, pc, n, text, pos, seg, clean, i, filtered_sentence,
           chinese_char_len, j, bound, char_list, char_list_whole, final_text_list,
           final_text_list_whole, outcome, result, line_log>>
rvars == <<rtext, length, tolerance, pattern_count, ri, rpc, rret>>
vars == <<cvars, rvars>>

(***************************************************************************)
(* Bounds of the model.                                                    *)
(***************************************************************************)
MaxLineLen == 3         \* characters of the line of a one-line batch
MaxLines == 2           \* lines of a batch of several lines
BatchLineLen == 1       \* characters of a line of such a batch
MaxStream == 2          \* items g2pw returns for a line
MaxRerunLen == 5        \* characters of an output that is fed back to the engine
MaxRepText == 6         \* characters of the text given to repetition_found
MaxWindow == 2          \* the argument length of repetition_found
MaxTolerance == 2       \* the argument tolerance of repetition_found

(***************************************************************************)
(* Characters and strings.                                                 *)
(***************************************************************************)
Alphabet == {"a", " ", ":", ";", "U+00E9", "U+5BA2", "U+FF0C"}
BatchAlphabet == {"a", "U+5BA2"}
RerunAlphabet == {"a", " ", ":", ";", "U+5BA2", "U+FF0C"}

\* ord(c)
CodePoint(c) ==
    CASE c = " " -> 32
      [] c = "\"" -> 34
      [] c = "'" -> 39
      [] c = "," -> 44
      [] c = "2" -> 50
      [] c = "4" -> 52
      [] c = "6" -> 54
      [] c = ":" -> 58
      [] c = ";" -> 59
      [] c = "a" -> 97
      [] c = "b" -> 98
      [] c = "e" -> 101
      [] c = "h" -> 104
      [] c = "i" -> 105
      [] c = "k" -> 107
      [] c = "s" -> 115
      [] c = "u" -> 117
      [] c = "U+00E9" -> 233
      [] c = "U+5BA2" -> 23458
      [] c = "U+FF0C" -> 65292

\* len(bytes(c, "UTF-8")) of one character
Utf8Len(c) ==
    IF CodePoint(c) < 128 THEN 1
    ELSE IF CodePoint(c) < 2048 THEN 2
    ELSE IF CodePoint(c) < 65536 THEN 3
    ELSE 4

RECURSIVE ByteLen(_)
\* len(bytes(seg, "UTF-8"))
ByteLen(s) == IF s = <<>> THEN 0 ELSE Utf8Len(Head(s)) + ByteLen(Tail(s))

\* "㄀" <= c <= "鿿"
is_chinese(c) == 12544 <= CodePoint(c) /\ CodePoint(c) <= 40959

IsLetter(c) ==
    \/ 65 <= CodePoint(c) /\ CodePoint(c) <= 90
    \/ 97 <= CodePoint(c) /\ CodePoint(c) <= 122

IsToneDigit(c) == 49 <= CodePoint(c) /\ CodePoint(c) <= 53

\* TONE3_STYLE_PATTERN = ^[a-zA-Z]+[1-5]?$ matched against item
is_tone3_style(item) ==
    /\ Len(item) >= 1
    /\ IsLetter(item[1])
    /\ \A p \in 1..(Len(item) - 1) : IsLetter(item[p])
    /\ IsLetter(item[Len(item)]) \/ (IsToneDigit(item[Len(item)]) /\ Len(item) >= 2)

\* custom_trans, applied to one character
custom_trans(c) ==
    CASE c = ";" -> ","
      [] c = "U+201C" -> "\""
      [] c = "U+201D" -> "\""
      [] c = "U+2018" -> "'"
      [] c = "U+2019" -> "'"
      [] OTHER -> c

\* text.translate(custom_trans)
Translate(s) == [p \in 1..Len(s) |-> custom_trans(s[p])]

Ke4 == <<"k", "e", "4">>
Shei2 == <<"s", "h", "e", "i", "2">>
Shui2 == <<"s", "h", "u", "i", "2">>

\* translation_map.get(item, item)
translation_map(item) == IF item = Shei2 THEN Shui2 ELSE item

\* filtered_sentence of lines 190-198
Filtered(sentence) ==
    LET raw == SelectSeq(sentence, is_tone3_style)
    IN  [p \in 1..Len(raw) |-> translation_map(raw[p])]

\* lazy_pinyin(seg, style=Style.TONE3, tone_sandhi=True): one token per character,
\* the pinyin of a Chinese character, any other character as it is
lazy_pinyin(s) == [p \in 1..Len(s) |-> IF s[p] = "U+5BA2" THEN Ke4 ELSE <<s[p]>>]

\* x in " :'\"" for a Python string x: x is a substring of the four characters
NoSpaceAfter == <<" ", ":", "'", "\"">>
InStr(x, s) == \E p \in 0..(Len(s) - Len(x)) : SubSeq(s, p + 1, p + Len(x)) = x

El(k, s) == [k |-> k, s |-> s]

\* list.append(seg): the segment as one element
AppendWhole(list, s) == Append(list, El("lit", s))

\* list.extend(seg): one element per character
Extend(list, s) == list \o [p \in 1..Len(s) |-> El("lit", <<s[p]>>)]

\* the condition of line 207 without its test of the segment's length
NeedsBoundarySpaceAnyLength(list, s) ==
    /\ list # <<>>
    /\ ~InStr(list[Len(list)].s, NoSpaceAfter)

\* the condition of line 207 without its test of the last element
NeedsBoundarySpaceAnyLast(list, s) ==
    /\ list # <<>>
    /\ ByteLen(s) > 1

\* the condition of line 207
NeedsBoundarySpace(list, s) ==
    /\ list # <<>>
    /\ ByteLen(s) > 1
    /\ ~InStr(list[Len(list)].s, NoSpaceAfter)

\* j < chinese_char_len, lines 222 and 239
Available(jv, len) == jv < len

\* j = j + 1, lines 226 and 243
Advance(jv) == jv + 1

\* a cursor that is compared with the stream only from below
MismatchStreamLonger(jv, fs) == jv < Len(fs)

\* j != len(filtered_sentence), line 250
Mismatch(jv, fs) == jv # Len(fs)

\* a cursor that is set once, before the loop over the lines
CarriedCursor == j

\* j = 0, line 203
LineStartCursor == 0

(***************************************************************************)
(* The inputs.                                                             *)
(***************************************************************************)
RECURSIVE SeqsUpTo(_, _)
SeqsUpTo(S, k) ==
    IF k = 0 THEN {<<>>}
    ELSE LET shorter == SeqsUpTo(S, k - 1)
         IN  shorter \cup {Append(s, x) : s \in {t \in shorter : Len(t) = k - 1}, x \in S}

\* what g2pw.lazy_pinyin may hold: a reading the code translates and two items
\* is_tone3_style rejects (punctuation kept as it is, a digit outside 1-5), or a
\* pinyin the code keeps and punctuation
G2PWItems == {Shei2, <<"U+FF0C">>, <<"k", "6">>}
BatchG2PWItems == {Ke4, <<"U+FF0C">>}

Lines == SeqsUpTo(Alphabet, MaxLineLen)
Batches == SeqsUpTo(SeqsUpTo(BatchAlphabet, BatchLineLen), MaxLines)

\* g2pw.lazy_pinyin(t): at most one item per character of t (one per Chinese
\* character, one per run of other characters), whatever the items are
Sentences(t) == {s \in SeqsUpTo(g2pw, MaxStream) : Len(s) <= Len(t)}

(***************************************************************************)
(* convert_char_to_pinyin                                                  *)
(***************************************************************************)
RepIdle ==
    /\ rtext = <<>> /\ length = 0 /\ tolerance = 0
    /\ pattern_count = <<>> /\ ri = 0 /\ rpc = "idle" /\ rret = FALSE

InitCall(batch) ==
    /\ text_list = batch
    /\ pc = "for"
    /\ n = 0
    /\ text = <<>>
    /\ pos = 0
    /\ seg = <<>>
    /\ clean = TRUE
    /\ i = 0
    /\ filtered_sentence = <<>>
    /\ chinese_char_len = 0
    /\ j = 0
    /\ bound = FALSE
    /\ char_list = <<>>
    /\ char_list_whole = <<>>
    /\ final_text_list = <<>>
    /\ final_text_list_whole = <<>>
    /\ outcome = "running"
    /\ result = <<>>
    /\ line_log = <<>>

Init ==
    /\ \/ \E l \in Lines : InitCall(<<l>>) /\ g2pw = G2PWItems
       \/ \E batch \in Batches : InitCall(batch) /\ g2pw = BatchG2PWItems
    /\ polyphone \in BOOLEAN
    /\ run = 1
    /\ RepIdle

\* lines 182-203: the next line is translated, g2pw reads it, the cursor is reset
BeginLine ==
    /\ pc = "for"
    /\ n < Len(text_list)
    /\ n' = n + 1
    /\ text' = Translate(text_list[n + 1])
    /\ \E sentence \in Sentences(text_list[n + 1]) :
          /\ filtered_sentence' = Filtered(sentence)
          /\ chinese_char_len' = Len(Filtered(sentence))
    /\ j' = LineStartCursor
    /\ bound' = TRUE
    /\ char_list' = <<>>
    /\ char_list_whole' = <<>>
    /\ pos' = 0
    /\ clean' = TRUE
    /\ pc' = "cut"
    /\ UNCHANGED <<text_list, polyphone, g2pw, run, seg, i, final_text_list,
                   final_text_list_whole, outcome, result, line_log, rvars>>

\* lines 204-206, 212, 230: jieba.cut yields the next segment and the branch is chosen
NextSegment ==
    /\ pc = "cut"
    /\ pos < Len(text)
    /\ \E m \in 1..(Len(text) - pos) :
          LET s == SubSeq(text, pos + 1, pos + m)
              seg_byte_len == ByteLen(s)
          IN  /\ seg' = s
              /\ pos' = pos + m
              /\ clean' = (clean /\ ~(/\ m > 1
                                       /\ seg_byte_len = m
                                       /\ pos > 0
                                       /\ text[pos] \notin {" ", ":", "'", "\""}))
              /\ pc' = IF seg_byte_len = Len(s) THEN "literal"
                       ELSE IF polyphone /\ seg_byte_len = 3 * Len(s) THEN "pronounceable"
                       ELSE "mixed"
    /\ i' = 1
    /\ UNCHANGED <<text_list, polyphone, g2pw, run, n, text, filtered_sentence, chinese_char_len,
                   j, bound, char_list, char_list_whole, final_text_list,
                   final_text_list_whole, outcome, result, line_log, rvars>>

\* the state after the last character of a segment
SegmentDone ==
    /\ pc' = "cut"
    /\ i' = 0
    /\ UNCHANGED seg

\* lines 207-211
LiteralSegment ==
    /\ pc = "literal"
    /\ LET sp == IF NeedsBoundarySpace(char_list, seg) THEN <<El("bsp", <<" ">>)>> ELSE <<>>
       IN  /\ char_list' = Extend(char_list \o sp, seg)
           /\ char_list_whole' = Extend(char_list_whole \o sp, seg)
    /\ SegmentDone
    /\ UNCHANGED <<text_list, polyphone, g2pw, run, n, text, pos, clean, filtered_sentence,
                   chinese_char_len, j, bound, final_text_list, final_text_list_whole,
                   outcome, result, line_log, rvars>>

\* lines 213-228, one iteration of the loop of line 214
PronounceableChar ==
    /\ pc = "pronounceable"
    /\ LET seg_ == lazy_pinyin(seg)
           c == seg[i]
           chinese == is_chinese(c)
       IN  IF chinese
           THEN /\ char_list' = char_list \o <<El("csp", <<" ">>), El("cf", seg_[i])>>
                /\ char_list_whole' =
                      IF Available(j, chinese_char_len)
                      THEN char_list_whole
                               \o <<El("csp", <<" ">>), El("ca", filtered_sentence[j + 1])>>
                      ELSE char_list_whole \o <<El("csp", <<" ">>)>>
                /\ j' = Advance(j)
           ELSE /\ char_list' = Append(char_list, El("pt", seg_[i]))
                /\ char_list_whole' = Append(char_list_whole, El("pt", seg_[i]))
                /\ j' = j
    /\ IF i = Len(seg) THEN SegmentDone ELSE /\ i' = i + 1
                                             /\ UNCHANGED <<pc, seg>>
    /\ UNCHANGED <<text_list, polyphone, g2pw, run, n, text, pos, clean, filtered_sentence,
                   chinese_char_len, bound, final_text_list, final_text_list_whole,
                   outcome, result, line_log, rvars>>

\* lines 231-246, one iteration of the loop of line 231
MixedChar ==
    /\ pc = "mixed"
    /\ LET c == seg[i]
       IN  IF CodePoint(c) < 256
           THEN /\ char_list' = Extend(char_list, <<c>>)
                /\ char_list_whole' = Extend(char_list_whole, <<c>>)
                /\ j' = j
           ELSE IF is_chinese(c)
           THEN /\ char_list' = char_list
                        \o <<El("csp", <<" ">>)>>
                        \o [p \in 1..Len(lazy_pinyin(<<c>>)) |-> El("cf", lazy_pinyin(<<c>>)[p])]
                /\ char_list_whole' =
                      IF Available(j, chinese_char_len)
                      THEN char_list_whole
                               \o <<El("csp", <<" ">>), El("ca", filtered_sentence[j + 1])>>
                      ELSE char_list_whole \o <<El("csp", <<" ">>)>>
                /\ j' = Advance(j)
           ELSE /\ char_list' = Append(char_list, El("lit", <<c>>))
                /\ char_list_whole' = Append(char_list_whole, El("lit", <<c>>))
                /\ j' = j
    /\ IF i = Len(seg) THEN SegmentDone ELSE /\ i' = i + 1
                                             /\ UNCHANGED <<pc, seg>>
    /\ UNCHANGED <<text_list, polyphone, g2pw, run, n, text, pos, clean, filtered_sentence,
                   chinese_char_len, bound, final_text_list, final_text_list_whole,
                   outcome, result, line_log, rvars>>

\* lines 247-248: jieba.cut is exhausted, the line's two lists are kept
EndLine ==
    /\ pc = "cut"
    /\ pos = Len(text)
    /\ final_text_list' = Append(final_text_list, char_list)
    /\ final_text_list_whole' = Append(final_text_list_whole, char_list_whole)
    /\ line_log' = Append(line_log, [filtered |-> filtered_sentence, j |-> j])
    /\ pc' = "for"
    /\ UNCHANGED <<text_list, polyphone, g2pw, run, n, text, pos, seg, clean, i, filtered_sentence,
                   chinese_char_len, j, bound, char_list, char_list_whole, outcome, result,
                   rvars>>

\* lines 250-257; with no line processed j and filtered_sentence are unbound names
Return ==
    /\ pc = "for"
    /\ n = Len(text_list)
    /\ IF ~bound
       THEN /\ outcome' = "NameError"
            /\ result' = <<>>
       ELSE IF Mismatch(j, filtered_sentence)
       THEN /\ outcome' = "context_free"
            /\ result' = final_text_list
       ELSE /\ outcome' = "whole"
            /\ result' = final_text_list_whole
    /\ pc' = "done"
    /\ UNCHANGED <<text_list, polyphone, g2pw, run, n, text, pos, seg, clean, i, filtered_sentence,
                   chinese_char_len, j, bound, char_list, char_list_whole, final_text_list,
                   final_text_list_whole, line_log, rvars>>

Next ==
    \/ BeginLine
    \/ NextSegment
    \/ LiteralSegment
    \/ PronounceableChar
    \/ MixedChar
    \/ EndLine
    \/ Return

Spec == Init /\ [][Next]_vars

(***************************************************************************)
(* The engine run again on its own output: the one returned list, joined   *)
(* into plain text, is the one line of a second call.                      *)
(***************************************************************************)
RECURSIVE Join(_)
\* "".join(list)
Join(list) == IF list = <<>> THEN <<>> ELSE Head(list).s \o Join(Tail(list))

RerunLines == SeqsUpTo(RerunAlphabet, MaxLineLen)

InitRerun ==
    /\ \E l \in RerunLines : InitCall(<<l>>)
    /\ g2pw = BatchG2PWItems
    /\ polyphone \in BOOLEAN
    /\ run = 1
    /\ RepIdle

\* convert_char_to_pinyin(["".join(result[0])], polyphone), line 147
Rerun ==
    /\ pc = "done"
    /\ run = 1
    /\ outcome \in {"whole", "context_free"}
    /\ Len(result) = 1
    /\ Len(Join(result[1])) <= MaxRerunLen
    /\ \A p \in 1..Len(Join(result[1])) : ~is_chinese(Join(result[1])[p])
    /\ run' = 2
    /\ text_list' = <<Join(result[1])>>
    /\ pc' = "for"
    /\ n' = 0
    /\ text' = <<>>
    /\ pos' = 0
    /\ seg' = <<>>
    /\ clean' = TRUE
    /\ i' = 0
    /\ filtered_sentence' = <<>>
    /\ chinese_char_len' = 0
    /\ j' = 0
    /\ bound' = FALSE
    /\ char_list' = <<>>
    /\ char_list_whole' = <<>>
    /\ final_text_list' = <<>>
    /\ final_text_list_whole' = <<>>
    /\ outcome' = "running"
    /\ result' = <<>>
    /\ line_log' = <<>>
    /\ UNCHANGED <<polyphone, g2pw, rvars>>

NextRerun == Next \/ Rerun

SpecRerun == InitRerun /\ [][NextRerun]_vars

(***************************************************************************)
(* repetition_found                                                        *)
(***************************************************************************)
RepTexts == SeqsUpTo({"a", "b"}, MaxRepText) \cup {<<"a", "b", "c", "d", "e", "f">>}

ConvertIdle ==
    /\ InitCall(<<>>)
    /\ g2pw = {}
    /\ polyphone = TRUE
    /\ run = 1

InitRep ==
    /\ ConvertIdle
    /\ rtext \in RepTexts
    /\ length \in 0..MaxWindow
    /\ tolerance \in 0..MaxTolerance
    /\ pattern_count = <<>>
    /\ ri = 0
    /\ rpc = "count"
    /\ rret = FALSE

\* count >= tolerance
ExcessiveOrEqual(count, tol) == count >= tol

\* count > tolerance, line 269
Excessive(count, tol) == count > tol

\* pattern_count[pattern] += 1 on a defaultdict(int)
Increment(counts, pattern) ==
    IF pattern \in DOMAIN counts
    THEN [counts EXCEPT ![pattern] = @ + 1]
    ELSE [q \in DOMAIN counts \cup {pattern} |-> IF q = pattern THEN 1 ELSE counts[q]]

\* lines 265-267, one iteration
RepCount ==
    /\ rpc = "count"
    /\ ri < Len(rtext) - length + 1
    /\ pattern_count' = Increment(pattern_count, SubSeq(rtext, ri + 1, ri + length))
    /\ ri' = ri + 1
    /\ UNCHANGED <<rtext, length, tolerance, rpc, rret, cvars>>

\* lines 268-271
RepReturn ==
    /\ rpc = "count"
    /\ ~(ri < Len(rtext) - length + 1)
    /\ rret' = \E q \in DOMAIN pattern_count : Excessive(pattern_count[q], tolerance)
    /\ rpc' = "done"
    /\ UNCHANGED <<rtext, length, tolerance, pattern_count, ri, cvars>>

NextRep == RepCount \/ RepReturn

SpecRep == InitRep /\ [][NextRep]_vars

(***************************************************************************)
(* Vocabulary of the properties.                                           *)
(***************************************************************************)
Returned == pc = "done" /\ outcome \in {"whole", "context_free"}

\* the Python strings of a list, without the annotations
Strs(list) == [p \in 1..Len(list) |-> list[p].s]

\* the characters of a string, each as a one-character string
Chars(s) == [p \in 1..Len(s) |-> <<s[p]>>]

NumChinese(s) == Cardinality({p \in 1..Len(s) : is_chinese(s[p])})

IsToken(e) == e.k \in {"cf", "ca"}
IsStreamToken(e) == e.k = "ca"

\* the k-th Chinese-block character of a line gets the token the claim C3 names
RECURSIVE ExpectedTokens(_, _, _)
ExpectedTokens(s, stream, k) ==
    IF s = <<>> THEN <<>>
    ELSE IF is_chinese(Head(s))
    THEN <<IF k <= Len(stream) THEN stream[k] ELSE lazy_pinyin(<<Head(s)>>)[1]>>
             \o ExpectedTokens(Tail(s), stream, k + 1)
    ELSE ExpectedTokens(Tail(s), stream, k)

LastLine == line_log[Len(line_log)]

NoEastAsian(s) == \A p \in 1..Len(s) : Utf8Len(s[p]) # 3

\* what a line was walked from: the characters it passed through, a mark for
\* each Chinese-block character, nothing for a boundary space or a token
RECURSIVE Skeleton(_)
Skeleton(list) ==
    IF list = <<>> THEN <<>>
    ELSE (CASE Head(list).k \in {"lit", "pt"} -> <<Head(list).s>>
            [] Head(list).k = "csp" -> <<<<"chinese">>>>
            [] OTHER -> <<>>) \o Skeleton(Tail(list))

LineSkeleton(s) == [p \in 1..Len(s) |-> IF is_chinese(s[p]) THEN <<"chinese">> ELSE <<s[p]>>]

\* the characters of t, with a space after each position of P
RECURSIVE WithSpaces(_, _, _)
WithSpaces(t, P, p) ==
    IF p > Len(t) THEN <<>>
    ELSE <<<<t[p]>>>> \o (IF p \in P THEN <<<<" ">>>> ELSE <<>>) \o WithSpaces(t, P, p + 1)

\* the places of t where the literal branch may put a boundary space: after a
\* character that is none of these, before two ASCII characters
Quiet == {" ", ":", "'", "\""}
SpacePlaces(t) ==
    {p \in 1..(Len(t) - 2) :
        t[p] \notin Quiet /\ Utf8Len(t[p + 1]) = 1 /\ Utf8Len(t[p + 2]) = 1}

OnlySpacesAdded(list, t) ==
    \E P \in SUBSET SpacePlaces(t) : Strs(list) = WithSpaces(t, P, 1)

(***************************************************************************)
(* C1. Reconciliation: once every line of a batch is processed, the call   *)
(* returns the context-free lists of the whole batch exactly when the      *)
(* final cursor differs from the length of the last line's filtered        *)
(* stream, and the merged lists otherwise; the mismatch raises nothing.    *)
(***************************************************************************)
C1_Reconciliation ==
    (pc = "done" /\ Len(text_list) > 0) =>
        /\ outcome \in {"whole", "context_free"}
        /\ (outcome = "context_free") <=> (LastLine.j # Len(LastLine.filtered))
        /\ outcome = "context_free" =>
              /\ result = final_text_list
              /\ \A l \in 1..Len(result) : \A p \in 1..Len(result[l]) :
                    ~IsStreamToken(result[l][p])
        /\ outcome = "whole" => result = final_text_list_whole

\* a batch of two lines falls back as a whole although its first line is aligned
C1_Witness ==
    /\ pc = "done"
    /\ outcome = "context_free"
    /\ Len(text_list) = 2
    /\ line_log[1].j = 1
    /\ Len(line_log[1].filtered) = 1
    /\ line_log[2].j # Len(line_log[2].filtered)

(***************************************************************************)
(* C2. Core alignment invariant: when the merged lists are returned, then  *)
(* for every line of the batch the number of Chinese-block characters      *)
(* counted in the walk equals the number of tokens taken from the line's   *)
(* filtered stream and equals the length of that stream.                   *)
(***************************************************************************)
C2_AlignedOnEveryLine ==
    (pc = "done" /\ outcome = "whole") =>
        \A l \in 1..Len(text_list) :
            /\ line_log[l].j = Len(SelectSeq(result[l], IsStreamToken))
            /\ line_log[l].j = Len(line_log[l].filtered)

(***************************************************************************)
(* C3. Per-character token with fallback, on the merged return: every      *)
(* Chinese-block character of a line contributes exactly one romanized     *)
(* token, the k-th one the k-th entry of the line's filtered stream when   *)
(* the stream has k entries and its context-free token otherwise, so that  *)
(* no Chinese character is left without a token.                           *)
(***************************************************************************)
C3_TokenForEveryChineseChar ==
    (pc = "done" /\ outcome = "whole") =>
        \A l \in 1..Len(text_list) :
            Strs(SelectSeq(result[l], IsToken))
                = ExpectedTokens(Translate(text_list[l]), line_log[l].filtered, 1)

(***************************************************************************)
(* C4. For every batch, the empty one included, the call returns exactly   *)
(* one list per input line, in input order, on both return paths.          *)
(***************************************************************************)
C4_OneSequencePerLine ==
    pc = "done" =>
        /\ outcome \in {"whole", "context_free"}
        /\ Len(result) = Len(text_list)
        /\ \A l \in 1..Len(text_list) :
              Skeleton(result[l]) = LineSkeleton(Translate(text_list[l]))

(***************************************************************************)
(* C7. Chinese boundary-space rule: in every returned list the token of a  *)
(* Chinese-block character is immediately preceded by a single space, and  *)
(* every such space is immediately followed by a romanized token.          *)
(***************************************************************************)
C7_SpaceBeforeEveryToken ==
    Returned =>
        \A l \in 1..Len(result) : \A p \in 1..Len(result[l]) :
            /\ IsToken(result[l][p]) =>
                  (p > 1 /\ result[l][p - 1] = El("csp", <<" ">>))
            /\ result[l][p].k = "csp" =>
                  (p < Len(result[l]) /\ IsToken(result[l][p + 1]))

(***************************************************************************)
(* C5. A line without East-Asian characters is returned as the character   *)
(* by character pass-through of its normalized text: nothing added,        *)
(* removed or reordered, no boundary space inserted, whatever the          *)
(* segmentation.                                                           *)
(***************************************************************************)
C5_ExactPassThrough ==
    Returned =>
        \A l \in 1..Len(text_list) :
            NoEastAsian(text_list[l]) =>
                Strs(result[l]) = Chars(Translate(text_list[l]))

(***************************************************************************)
(* C5 as amended. A line without East-Asian characters is returned as its  *)
(* normalized text, character by character and in order, with nothing      *)
(* removed; the only elements added are single boundary spaces, each after *)
(* a character that is no space, colon or quote and before at least two    *)
(* ASCII characters.                                                       *)
(***************************************************************************)
C5_PassThroughWithBoundarySpaces ==
    Returned =>
        \A l \in 1..Len(text_list) :
            NoEastAsian(text_list[l]) =>
                OnlySpacesAdded(result[l], Translate(text_list[l]))

\* ";aa" cut into ";" and "aa" (or a line with e acute) comes back with a space added
C5_Witness ==
    /\ Returned
    /\ Len(text_list) = 1
    /\ NoEastAsian(text_list[1])
    /\ \E p \in 1..Len(text_list[1]) : Utf8Len(text_list[1][p]) = 2
    /\ Len(result[1]) = Len(text_list[1]) + 1

\* the step that walks a literal segment: what it appends to the two lists, the
\* condition being the one of line 207, which reads char_list
LiteralStep(quiet) ==
    LET space == /\ char_list # <<>>
                 /\ char_list[Len(char_list)].s \notin quiet
                 /\ Len(seg) > 1
        added == (IF space THEN <<<<" ">>>> ELSE <<>>) \o Chars(seg)
    IN  /\ Strs(char_list') = Strs(char_list) \o added
        /\ Strs(char_list_whole') = Strs(char_list_whole) \o added

AtLiteralSegment == pc \notin {"cut", "for", "done"} /\ ByteLen(seg) = Len(seg)

(***************************************************************************)
(* C6. Literal-segment boundary rule: at a literal segment exactly one     *)
(* boundary space is appended before the segment's characters if the       *)
(* output so far is non-empty, its last element is not a space or a quote, *)
(* and the segment has more than one character; otherwise none. The        *)
(* characters are then appended one by one, unchanged.                     *)
(***************************************************************************)
C6_SpaceUnlessSpaceOrQuote ==
    [][AtLiteralSegment => LiteralStep({<<" ">>, <<"'">>, <<"\"">>})]_vars

(***************************************************************************)
(* C6 as amended. As C6, with the last element of the context-free list    *)
(* being not a space, a colon or a quote; the space and the characters go  *)
(* to both lists.                                                          *)
(***************************************************************************)
C6_SpaceUnlessSpaceColonOrQuote ==
    [][AtLiteralSegment => LiteralStep({<<" ">>, <<":">>, <<"'">>, <<"\"">>})]_vars

\* ":aa" cut into ":" and "aa": the segment "aa" was appended without a space
C6_Witness ==
    /\ pc = "cut"
    /\ text = <<":", "a", "a">>
    /\ pos = 3
    /\ seg = <<"a", "a">>
    /\ Strs(char_list) = <<<<":">>, <<"a">>, <<"a">>>>

(***************************************************************************)
(* C8. Idempotence: the engine run on the text of its own returned list    *)
(* (which holds no Chinese-block character) returns that text unchanged:   *)
(* no further boundary space, no character altered.                        *)
(***************************************************************************)
C8_Idempotent ==
    (run = 2 /\ Returned) => Strs(result[1]) = Chars(text_list[1])

(***************************************************************************)
(* C8 as amended. The second run alters and removes no character and adds  *)
(* only boundary spaces; it returns the text unchanged whenever every      *)
(* segment of several ASCII characters that the second segmentation yields *)
(* starts the text or follows a space, a colon or a quote.                 *)
(***************************************************************************)
C8_IdempotentOnCleanCuts ==
    (run = 2 /\ Returned) =>
        /\ OnlySpacesAdded(result[1], text_list[1])
        /\ clean => Strs(result[1]) = Chars(text_list[1])

\* "a<U+5BA2>" came back as "a ke4" and, cut into "a", " ", "ke4", comes back again
C8_Witness ==
    /\ run = 2
    /\ Returned
    /\ clean
    /\ text_list = <<<<"a", " ", "k", "e", "4">>>>
    /\ seg = <<"k", "e", "4">>
    /\ Strs(result[1]) = Chars(text_list[1])

(***************************************************************************)
(* C9. repetition_found(text, length, tolerance) is true exactly when some *)
(* substring of text of length characters, counted over all overlapping    *)
(* start positions, occurs more than tolerance times; it is false when     *)
(* text is shorter than length.                                            *)
(***************************************************************************)
Window(p) == SubSeq(rtext, p + 1, p + length)
Occurrences(p) == Cardinality({q \in 0..(Len(rtext) - length) : Window(q) = Window(p)})

C9_RepetitionFound ==
    rpc = "done" =>
        /\ rret <=> \E p \in 0..(Len(rtext) - length) : Occurrences(p) > tolerance
        /\ Len(rtext) < length => ~rret

\* ("ababab", 2, 2): "ab" occurs 3 times
C9_Witness ==
    /\ rpc = "done"
    /\ rtext = <<"a", "b", "a", "b", "a", "b">>
    /\ length = 2
    /\ tolerance = 2
    /\ rret

(***************************************************************************)
(* C10. Cursor discipline: the cursor is 0 at the start of each line, never *)
(* decreases during the walk, advances by exactly one for each             *)
(* Chinese-block character and by nothing else, and so at the end of each  *)
(* line's walk equals the number of Chinese-block characters of the        *)
(* normalized line, in either branch, with or without a context-aware      *)
(* token, polyphone on or off.                                             *)
(***************************************************************************)
C10_CursorDiscipline ==
    [][/\ (pc = "for" /\ pc' = "cut") => j' = 0
       /\ pc \in {"pronounceable", "mixed"} =>
             j' = j + (IF is_chinese(seg[i]) THEN 1 ELSE 0)
       /\ pc \in {"cut", "literal"} => j' = j
       /\ pc \notin {"for", "done"} => j' >= j
       /\ (pc = "cut" /\ pc' = "for") => j = NumChinese(Translate(text_list[n]))]_vars

\* two lines with a Chinese character each, the second walked with polyphone off
\* and without a context-aware token: the cursor ended at 1 on both
C10_Witness ==
    /\ pc = "for"
    /\ n = 2
    /\ ~polyphone
    /\ line_log[1].j = 1
    /\ line_log[2].j = 1
    /\ line_log[2].filtered = <<>>

====
